---- MODULE Spec2Model ----
(***************************************************************************)
(* State-machine model of the learning-management demo.  The repository    *)
(* holds three near-identical copies of the application:                   *)
(*   "App" : src/src/App.tsx        (courses / lessons / chatMessages)     *)
(*   "P0"  : src/unnamed/part_000   (modules / enrollments, hr_*_v2 keys)  *)
(*   "P1"  : src/unnamed/part_001   (modules / enrollments, hr_* keys)     *)
(* part_000 declares enrollInModule, updateProgress, callLearnAgent and    *)
(* evaluateAssessment twice; bind says which declaration a build binds.    *)
(* Display-only fields (titles, timestamps, confidence, source section)    *)
(* are left out of the records; every field a branch reads is kept.        *)
(***************************************************************************)
EXTENDS Integers, Sequences, FiniteSets, TLC

VARIABLES
  copy,             \* which copy of the application runs
  bind,             \* part_000: 1 = first declarations, 2 = second declarations
  phase,            \* "init" (constructed), "loading" (P1 re-render pending), "ready"
  pending,          \* values queued by the load effect for the re-render
  storage,          \* localStorage: users / modules / enrollments items
  nextId,           \* generateRandomId: number of ids drawn so far
  currentUser, view, modules, enrollments, selectedModule, showCreateModule,
  agentChat, isTyping, currentAgentMessage,
  currentQuiz, currentQuizIndex, gradeResults, isGrading,
  currentRole, courses, currentCourse, currentLesson, isAssessmentMode,
  chatMessages, chatInput, isChatLoading,
  sessionId,        \* App.tsx: the session id state
  analytics,        \* part_000: what calculateAnalytics returned last
  calls,            \* agent calls started since the page was loaded
  posted,           \* HTTP POSTs sent since the page was loaded, in order
  reloads           \* number of page reloads so far

storeVars == <<currentUser, view, modules, enrollments, selectedModule, showCreateModule>>
quizVars  == <<currentQuiz, currentQuizIndex, gradeResults, isGrading>>
chatVars  == <<agentChat, isTyping, currentAgentMessage>>
appVars   == <<currentRole, courses, currentCourse, currentLesson, isAssessmentMode,
               chatMessages, chatInput, isChatLoading, sessionId>>
envVars   == <<copy, bind, phase, pending, reloads>>
vars == <<copy, bind, phase, pending, storage, nextId,
          currentUser, view, modules, enrollments, selectedModule, showCreateModule,
          agentChat, isTyping, currentAgentMessage,
          currentQuiz, currentQuizIndex, gradeResults, isGrading,
          currentRole, courses, currentCourse, currentLesson, isAssessmentMode,
          chatMessages, chatInput, isChatLoading, sessionId, analytics, calls, posted,
          reloads>>

----------------------------------------------------------------------------
(* Bounds *)
MaxIds     == 4     \* ids drawn by generateRandomId per behaviour
MaxCalls   == 2     \* agent calls started per page load
MaxReloads == 1     \* page reloads per behaviour
MaxQ       == 2     \* questions in a reply
MaxGatewayIds == 2  \* ids drawn while the gateway's controls are brought on screen

----------------------------------------------------------------------------
(* Values *)
NONE   == "<undefined>"          \* an absent string field
NoNum  == -1                     \* an absent numeric field
NoUser == [id |-> 0, role |-> "none"]
NoModule == 0
NoItem == <<>>                   \* localStorage.getItem(...) === null

JSONstringify(v) == <<"json", v>>
JSONparse(t) == t[2]
Truthy(item) == item # NoItem    \* a stored item is a non-empty string

Roles == {"hr", "employee"}

\* Array.prototype.some / map  (filter is SelectSeq)
SeqSome(s, p(_)) == \E i \in 1..Len(s) : p(s[i])
SeqMap(s, f(_)) == [i \in 1..Len(s) |-> f(s[i])]

----------------------------------------------------------------------------
(* Construction: the useState initial values *)
EmptyStorage == [users |-> NoItem, modules |-> NoItem, enrollments |-> NoItem]
NoQuiz  == [set |-> FALSE, list |-> <<>>]
NoGrade == [set |-> FALSE, score |-> 0, total |-> 0, feedback |-> NONE, gaps |-> <<>>]
NoLesson == "none"
NoCourse == "none"

\* A generated identifier, kept by how it was made: made = the number of the
\* agent call that built it (AtMount for the mount effect), time = it holds
\* Date.now(), random = it holds a Math.random() suffix.
AtMount == 0
MadeId(made, random) == [made |-> made, time |-> TRUE, random |-> random]
NoId == [made |-> AtMount, time |-> FALSE, random |-> FALSE]   \* useState('')

\* no calculateAnalytics call has returned yet
NoAnalytics == [set |-> FALSE]

\* every state but the two arrays
ConstructedRest ==
  /\ currentUser = NoUser /\ view = "auth"
  /\ selectedModule = NoModule /\ showCreateModule = FALSE
  /\ agentChat = <<>> /\ isTyping = FALSE /\ currentAgentMessage = ""
  /\ currentQuiz = NoQuiz /\ currentQuizIndex = 0
  /\ gradeResults = NoGrade /\ isGrading = FALSE
  /\ currentRole = "hr" /\ courses = <<>>
  /\ currentCourse = NoCourse /\ currentLesson = NoLesson
  /\ isAssessmentMode = FALSE
  /\ chatMessages = <<>> /\ chatInput = "" /\ isChatLoading = FALSE
  /\ sessionId = NoId
  /\ analytics = NoAnalytics
  /\ calls = <<>> /\ posted = <<>>
  /\ pending = [modules |-> NoItem, enrollments |-> NoItem]

Constructed ==
  /\ modules = <<>> /\ enrollments = <<>>
  /\ ConstructedRest

Init ==
  /\ copy \in {"App", "P0", "P1"}
  /\ bind \in (IF copy = "P0" THEN {1, 2} ELSE {1})
  /\ phase = "init"
  /\ storage = EmptyStorage
  /\ nextId = 0
  /\ reloads = 0
  /\ Constructed

----------------------------------------------------------------------------
(* Sample data of App.tsx *)
SampleCourses ==
  << [id |-> "1", lessons |-> << [id |-> "1-1", assessment |-> TRUE],
                                 [id |-> "1-2", assessment |-> FALSE] >>],
     [id |-> "2", lessons |-> << [id |-> "2-1", assessment |-> FALSE] >>] >>
SampleAssignments ==
  << [id |-> "1", courseId |-> "1"], [id |-> "2", courseId |-> "2"] >>

----------------------------------------------------------------------------
(* Mount effects *)
ViewOf(role) == IF role = "hr" THEN "hr-dashboard" ELSE "employee-dashboard"

\* part_000: the load effect
MountP0 ==
  /\ copy = "P0" /\ phase = "init"
  /\ modules' = IF Truthy(storage.modules) THEN JSONparse(storage.modules) ELSE modules
  /\ enrollments' = IF Truthy(storage.enrollments)
                    THEN JSONparse(storage.enrollments) ELSE enrollments
  /\ IF Truthy(storage.users)
     THEN LET users == JSONparse(storage.users) IN
          IF Len(users) > 0
          THEN /\ currentUser' = users[1]
               /\ view' = ViewOf(users[1].role)
          ELSE /\ currentUser' = NoUser
               /\ UNCHANGED view
     ELSE UNCHANGED <<currentUser, view>>
  /\ phase' = "ready"
  /\ UNCHANGED <<copy, bind, pending, reloads, storage, nextId, selectedModule,
                 showCreateModule, chatVars, quizVars, appVars, calls, posted, analytics>>

\* part_001: the effects of the first render.  The load effect reads the
\* stored items and queues setModules / setEnrollments; the two save effects
\* then write the arrays of the first render, which are empty.
MountP1 ==
  /\ copy = "P1" /\ phase = "init"
  /\ pending' = [modules |-> storage.modules, enrollments |-> storage.enrollments]
  /\ storage' = [storage EXCEPT !.modules = JSONstringify(modules),
                                !.enrollments = JSONstringify(enrollments)]
  /\ phase' = "loading"
  /\ UNCHANGED <<copy, bind, reloads, nextId, storeVars, chatVars, quizVars,
                 appVars, calls, posted, analytics>>

\* part_001: the re-render that applies the queued values; the save effects
\* run again for the arrays that changed.
MountSettleP1 ==
  /\ copy = "P1" /\ phase = "loading"
  /\ modules' = IF Truthy(pending.modules) THEN JSONparse(pending.modules) ELSE modules
  /\ enrollments' = IF Truthy(pending.enrollments)
                    THEN JSONparse(pending.enrollments) ELSE enrollments
  /\ storage' = [storage EXCEPT
                   !.modules = IF Truthy(pending.modules)
                               THEN JSONstringify(modules') ELSE @,
                   !.enrollments = IF Truthy(pending.enrollments)
                                   THEN JSONstringify(enrollments') ELSE @]
  /\ pending' = [modules |-> NoItem, enrollments |-> NoItem]
  /\ phase' = "ready"
  /\ UNCHANGED <<copy, bind, reloads, nextId, currentUser, view, selectedModule,
                 showCreateModule, chatVars, quizVars, appVars, calls, posted, analytics>>

\* App.tsx: the session-id effect and the sample-data effect
MountApp ==
  /\ copy = "App" /\ phase = "init"
  /\ courses' = SampleCourses
  /\ sessionId' = MadeId(AtMount, TRUE)
  /\ UNCHANGED analytics
  /\ phase' = "ready"
  /\ UNCHANGED <<copy, bind, pending, reloads, storage, nextId, storeVars, chatVars,
                 quizVars, currentRole, currentCourse, currentLesson,
                 isAssessmentMode, chatMessages, chatInput, isChatLoading, calls, posted>>

\* The browser reloads the page: memory is rebuilt, localStorage is kept and
\* the calls in flight are dropped with the page.
Reload ==
  /\ reloads < MaxReloads
  /\ reloads' = reloads + 1
  /\ phase' = "init"
  /\ currentUser' = NoUser /\ view' = "auth"
  /\ modules' = <<>> /\ enrollments' = <<>>
  /\ selectedModule' = NoModule /\ showCreateModule' = FALSE
  /\ agentChat' = <<>> /\ isTyping' = FALSE /\ currentAgentMessage' = ""
  /\ currentQuiz' = NoQuiz /\ currentQuizIndex' = 0
  /\ gradeResults' = NoGrade /\ isGrading' = FALSE
  /\ currentRole' = "hr" /\ courses' = <<>>
  /\ currentCourse' = NoCourse /\ currentLesson' = NoLesson
  /\ isAssessmentMode' = FALSE
  /\ chatMessages' = <<>> /\ chatInput' = "" /\ isChatLoading' = FALSE
  /\ sessionId' = NoId
  /\ analytics' = NoAnalytics
  /\ calls' = <<>> /\ posted' = <<>>
  /\ pending' = [modules |-> NoItem, enrollments |-> NoItem]
  /\ UNCHANGED <<copy, bind, storage, nextId>>

----------------------------------------------------------------------------
(* Client state store of part_000 and part_001 *)
InStore == copy \in {"P0", "P1"} /\ phase = "ready"
Dashboard == view \in {"hr-dashboard", "employee-dashboard"}

\* what the handlers leave alone
StoreFrame == UNCHANGED <<envVars, chatVars, quizVars, appVars, calls, posted, analytics>>

\* generateRandomId: a fresh id
generateRandomId == nextId + 1

\* part_001 lines 98-104: the save effects, run after a render in which the
\* array was set; part_000 has no such effect.
SaveEffect(item, new) ==
  IF copy = "P1" THEN JSONstringify(new) ELSE item

\* handleAuth: register takes the role of the form, login derives it from
\* the e-mail address (isOrg: the address contains the marker substring).
handleAuth(mode, formRole, isOrg) ==
  /\ InStore /\ view = "auth"
  /\ nextId < MaxIds
  /\ LET role == IF mode = "register" THEN formRole
                 ELSE IF isOrg THEN "hr" ELSE "employee"
         user == [id |-> generateRandomId, role |-> role]
     IN /\ currentUser' = user
        /\ storage' = IF copy = "P0"
                      THEN [storage EXCEPT !.users = JSONstringify(<<user>>)]
                      ELSE storage
        /\ view' = ViewOf(role)
  /\ nextId' = nextId + 1
  /\ UNCHANGED <<modules, enrollments, selectedModule, showCreateModule>>
  /\ StoreFrame

\* the Sign Out button of either dashboard
SignOut ==
  /\ InStore /\ Dashboard
  /\ currentUser' = NoUser
  /\ UNCHANGED <<storage, nextId, view, modules, enrollments, selectedModule,
                 showCreateModule>>
  /\ StoreFrame

SwitchToEmployeeView ==
  /\ InStore /\ view = "hr-dashboard"
  /\ view' = "employee-dashboard"
  /\ UNCHANGED <<storage, nextId, currentUser, modules, enrollments, selectedModule,
                 showCreateModule>>
  /\ StoreFrame

SwitchToHRView ==
  /\ InStore /\ view = "employee-dashboard"
  /\ view' = "hr-dashboard"
  /\ UNCHANGED <<storage, nextId, currentUser, modules, enrollments, selectedModule,
                 showCreateModule>>
  /\ StoreFrame

\* "+ Create Module" opens the form, Cancel closes it
SetShowCreateModule(b) ==
  /\ InStore /\ view = "hr-dashboard"
  /\ showCreateModule # b
  /\ showCreateModule' = b
  /\ UNCHANGED <<storage, nextId, currentUser, view, modules, enrollments,
                 selectedModule>>
  /\ StoreFrame

\* createModule, bound to the Create button of the form on the HR dashboard.
\* currentUser!.id throws when nobody is signed in, before any state is set.
\* creatorRole is a history field: the role of the user who ran createModule.
createModule ==
  /\ InStore /\ view = "hr-dashboard" /\ showCreateModule
  /\ IF currentUser = NoUser
     THEN UNCHANGED <<storage, nextId, storeVars>>
     ELSE /\ nextId < MaxIds
          /\ LET newModule == [id |-> generateRandomId,
                               createdBy |-> currentUser.id,
                               creatorRole |-> currentUser.role]
                 updatedModules == Append(modules, newModule)
             IN /\ modules' = updatedModules
                /\ storage' =
                     IF copy = "P0"
                     THEN [storage EXCEPT !.modules = JSONstringify(updatedModules)]
                     ELSE [storage EXCEPT
                             !.modules = SaveEffect(@, updatedModules)]
          /\ nextId' = nextId + 1
          /\ showCreateModule' = FALSE
          /\ UNCHANGED <<currentUser, view, enrollments, selectedModule>>
  /\ StoreFrame

\* View Details (HR dashboard) / Continue Learning (employee dashboard)
SelectModule(i) ==
  /\ InStore /\ i \in 1..Len(modules)
  /\ \/ view = "hr-dashboard"
     \/ /\ view = "employee-dashboard"
        /\ SeqSome(enrollments, LAMBDA e : e.userId = currentUser.id
                                           /\ e.moduleId = modules[i].id)
  /\ selectedModule' = modules[i].id
  /\ UNCHANGED <<storage, nextId, currentUser, view, modules, enrollments,
                 showCreateModule>>
  /\ StoreFrame

\* Close button of the module viewer
CloseModule ==
  /\ InStore /\ view = "employee-dashboard" /\ selectedModule # NoModule
  /\ selectedModule' = NoModule
  /\ UNCHANGED <<storage, nextId, currentUser, view, modules, enrollments,
                 showCreateModule>>
  /\ StoreFrame

\* input sets of the progress handlers
ProgressVals == {0, 50, 100}
ScoreVals == {0, 80}

MyEnrollments == SelectSeq(enrollments, LAMBDA e : e.userId = currentUser.id)
\* variant: the enroll buttons are shown for every module
IsEnrolled_notChecked(moduleId) == FALSE /\ moduleId = moduleId
IsEnrolled(moduleId) == SeqSome(MyEnrollments, LAMBDA e : e.moduleId = moduleId)

\* enrollInModule(moduleId): what one invocation does.
\*   part_000 lines 171-188 (bind 1): returns when the user is already
\*     enrolled, else appends and writes the item;
\*   part_000 lines 551-562 (bind 2) and part_001 lines 150-161: append, no
\*     check, no write (part_001 is saved by its effect).
\* currentUser!.id throws when nobody is signed in.
enrollInModule(moduleId) ==
  IF copy = "P0" /\ bind = 1 /\ IsEnrolled(moduleId)
  THEN UNCHANGED <<enrollments, storage, nextId>>
  ELSE IF currentUser = NoUser
  THEN UNCHANGED <<enrollments, storage, nextId>>
  ELSE /\ nextId < MaxIds
       /\ LET newEnrollment == [id |-> generateRandomId,
                                userId |-> currentUser.id,
                                moduleId |-> moduleId,
                                progress |-> 0,
                                completed |-> FALSE,
                                score |-> NoNum]
              updatedEnrollments == Append(enrollments, newEnrollment)
          IN /\ enrollments' = updatedEnrollments
             /\ storage' =
                  IF copy = "P0"
                  THEN IF bind = 1
                       THEN [storage EXCEPT
                               !.enrollments = JSONstringify(updatedEnrollments)]
                       ELSE storage
                  ELSE [storage EXCEPT
                          !.enrollments = SaveEffect(@, updatedEnrollments)]
       /\ nextId' = nextId + 1

\* "Enroll Now" in the Available Courses list
EnrollNow(i) ==
  /\ InStore /\ view = "employee-dashboard"
  /\ i \in 1..Len(modules)
  /\ ~IsEnrolled(modules[i].id)            \* availableModules
  /\ enrollInModule(modules[i].id)
  /\ UNCHANGED <<currentUser, view, modules, selectedModule, showCreateModule>>
  /\ StoreFrame

\* "Enroll in Module" in the module viewer; setSelectedModule(null) follows
\* enrollInModule and is skipped when it throws.
EnrollInViewer ==
  /\ InStore /\ view = "employee-dashboard"
  /\ selectedModule # NoModule
  /\ ~IsEnrolled(selectedModule)
  /\ enrollInModule(selectedModule)
  /\ selectedModule' = IF currentUser = NoUser THEN selectedModule ELSE NoModule
  /\ UNCHANGED <<currentUser, view, modules, showCreateModule>>
  /\ StoreFrame

EnrollmentIds == {enrollments[i].id : i \in 1..Len(enrollments)}

\* updateProgress(enrollmentId, progress)
\*   part_000 lines 190-198 (bind 1) writes the item; part_000 lines 564-568
\*   (bind 2) does not; part_001 lines 163-167 is saved by its effect.
updateProgress(enrollmentId, progress) ==
  /\ InStore
  /\ LET updatedEnrollments ==
           SeqMap(enrollments, LAMBDA e : IF e.id = enrollmentId
                                          THEN [e EXCEPT !.progress = progress]
                                          ELSE e)
     IN /\ enrollments' = updatedEnrollments
        /\ storage' =
             IF copy = "P0"
             THEN IF bind = 1
                  THEN [storage EXCEPT
                          !.enrollments = JSONstringify(updatedEnrollments)]
                  ELSE storage
             ELSE [storage EXCEPT !.enrollments = SaveEffect(@, updatedEnrollments)]
  /\ UNCHANGED <<nextId, currentUser, view, modules, selectedModule, showCreateModule>>
  /\ StoreFrame

\* completeEnrollment(enrollmentId, score, answers), part_000 only
completeEnrollment(enrollmentId, score) ==
  /\ copy = "P0" /\ phase = "ready"
  /\ LET updatedEnrollments ==
           SeqMap(enrollments, LAMBDA e : IF e.id = enrollmentId
                                          THEN [e EXCEPT !.progress = 100,
                                                         !.completed = TRUE,
                                                         !.score = score]
                                          ELSE e)
     IN /\ enrollments' = updatedEnrollments
        /\ storage' = [storage EXCEPT
                         !.enrollments = JSONstringify(updatedEnrollments)]
  /\ UNCHANGED <<nextId, currentUser, view, modules, selectedModule, showCreateModule>>
  /\ StoreFrame

----------------------------------------------------------------------------
(* Replies of the external agent service *)

\* BoundedSeq(S, n): the sequences over S of length at most n
BoundedSeq(S, n) == UNION {[1..k -> S] : k \in 0..n}

NoResult   == [has |-> FALSE, response |-> NONE, summary |-> NONE, score |-> NoNum]
ResultVals == {NoResult} \cup
              [has : {TRUE}, response : {NONE, "answer"},
               summary : {NONE, "summary"}, score : {NoNum, 0, 80}]

NoResponse   == [has |-> FALSE, content |-> NONE]
ResponseVals == {NoResponse} \cup [has : {TRUE}, content : {NONE, "", "answer"}]

\* an element of assessment.questions: an object with optional fields, or null
NullItem == [null |-> TRUE, question |-> NONE, expected_answer |-> NONE]
QItems == {[null |-> FALSE, question |-> "q", expected_answer |-> "a"],
           [null |-> FALSE, question |-> NONE, expected_answer |-> "a"],
           [null |-> FALSE, question |-> "q", expected_answer |-> NONE],
           NullItem}
NoQuestions   == [has |-> FALSE, list |-> <<>>]
QuestionsVals == {NoQuestions} \cup [has : {TRUE}, list : BoundedSeq(QItems, MaxQ)]

NoGaps == [has |-> FALSE, list |-> <<>>]
GapsVals == {NoGaps, [has |-> TRUE, list |-> <<"gap">>]}
NoEvaluation   == [has |-> FALSE, score |-> NoNum, feedback |-> NONE,
                   gaps_identified |-> NoGaps]
EvaluationVals == {NoEvaluation} \cup
                  [has : {TRUE}, score : {NoNum, 0, 80}, feedback : {NONE, "fb"},
                   gaps_identified : GapsVals]

NoAssessment == [has |-> FALSE, questions |-> NoQuestions, evaluation |-> NoEvaluation]
FullQuestions  == [has |-> TRUE,
                   list |-> <<[null |-> FALSE, question |-> "q", expected_answer |-> "a"]>>]
FullEvaluation == [has |-> TRUE, score |-> 80, feedback |-> "fb",
                   gaps_identified |-> [has |-> TRUE, list |-> <<"gap">>]]
AssessmentVals ==
  {NoAssessment}
  \cup [has : {TRUE}, questions : QuestionsVals, evaluation : {NoEvaluation}]
  \cup [has : {TRUE}, questions : {NoQuestions}, evaluation : EvaluationVals]
  \cup {[has |-> TRUE, questions |-> FullQuestions, evaluation |-> FullEvaluation]}

\* a JSON value: null, or an object carrying at most one of the three
\* top-level fields the call sites read
NULLV == [null |-> TRUE, result |-> NoResult, response |-> NoResponse,
          assessment |-> NoAssessment]
Obj(r, p, a) == [null |-> FALSE, result |-> r, response |-> p, assessment |-> a]
Values ==
  {NULLV}
  \cup {Obj(r, NoResponse, NoAssessment) : r \in ResultVals}
  \cup {Obj(NoResult, p, NoAssessment) : p \in ResponseVals}
  \cup {Obj(NoResult, NoResponse, a) : a \in AssessmentVals}

\* What comes back for one request: the fetch promise rejects (net = "fail")
\* or resolves with a body.  form "json": the body is the JSON text of value;
\* "prose": the JSON text of value with prose around it; "garbage": no JSON.
Replies ==
  {[net |-> "fail", form |-> "garbage", value |-> NULLV],
   [net |-> "ok", form |-> "garbage", value |-> NULLV]}
  \cup [net : {"ok"}, form : {"json", "prose"}, value : Values]

\* response.json(): rejects unless the whole body is JSON
responseJson(reply) == [ok |-> reply.form = "json",
                        data |-> [form |-> "object", value |-> reply.value]]
\* response.text()
responseText(reply) == [form |-> reply.form, value |-> reply.value]

\* parseLLMJson (utils/jsonParser): direct parse, else the first {...} block,
\* else the safe default.  An input that is already an object is returned.
SafeDefault == NULLV
\* variant: no extraction of an object embedded in prose
parseLLMJson_directOnly(input) ==
  CASE input.form = "object" -> input.value
    [] input.form = "json"   -> input.value
    [] OTHER                 -> SafeDefault
parseLLMJson(input) ==
  CASE input.form = "object" -> input.value
    [] input.form = "json"   -> input.value
    [] input.form = "prose"  -> IF input.value.null THEN SafeDefault ELSE input.value
    [] OTHER                 -> SafeDefault

\* JavaScript's  a || b  on an optional string / number
OrStr(a, b) == IF a = NONE \/ a = "" THEN b ELSE a
OrNum(a, b) == IF a = NoNum \/ a = 0 THEN b ELSE a

----------------------------------------------------------------------------
(* calculateAnalytics of part_000 (lines 525-543) *)

\* Math.round of the quotient num / den, den > 0: the nearest integer, a
\* half going up
MathRound(num, den) == (2 * num + den) \div (2 * den)

\* enrollments.filter(e => e.completed)
completedEnrollments == SelectSeq(enrollments, LAMBDA e : e.completed)

\* reduce((sum, e) => sum + (e.score || 0), 0)
RECURSIVE SumScores(_)
SumScores(list) ==
  IF list = <<>> THEN 0
  ELSE SumScores(SubSeq(list, 1, Len(list) - 1)) + OrNum(list[Len(list)].score, 0)

\* enrollments.length > 0 ? (completed / total) * 100 : 0, then Math.round
completionRate ==
  IF Len(enrollments) > 0
  THEN MathRound(100 * Len(completedEnrollments), Len(enrollments))
  ELSE 0

\* sum / completedEnrollments.length || 0, then Math.round: 0 / 0 is NaN,
\* which || replaces by 0
averageScore ==
  IF Len(completedEnrollments) = 0 THEN 0
  ELSE MathRound(SumScores(completedEnrollments), Len(completedEnrollments))

\* modules.map(module => ({ moduleId, title, enrollments: count }))
EnrollmentCounts ==
  [i \in 1..Len(modules) |->
     [moduleId |-> modules[i].id,
      enrollments |-> Len(SelectSeq(enrollments,
                                    LAMBDA e : e.moduleId = modules[i].id))]]

\* .sort((a, b) => b.enrollments - a.enrollments): stable, the larger count
\* first
InsertByCount(sorted, x) ==
  LET k == Cardinality({i \in 1..Len(sorted) : sorted[i].enrollments >= x.enrollments})
  IN SubSeq(sorted, 1, k) \o <<x>> \o SubSeq(sorted, k + 1, Len(sorted))
RECURSIVE SortByCount(_)
SortByCount(list) ==
  IF list = <<>> THEN <<>>
  ELSE InsertByCount(SortByCount(SubSeq(list, 1, Len(list) - 1)), list[Len(list)])

\* Array.prototype.slice(0, n)
Slice(list, n) == SubSeq(list, 1, IF Len(list) < n THEN Len(list) ELSE n)

PopularShown == 5
\* variant: the sorted list is returned whole
calculateAnalytics_noSlice ==
  [set |-> TRUE,
   totalModules |-> Len(modules),
   totalEnrollments |-> Len(enrollments),
   completionRate |-> completionRate,
   averageScore |-> averageScore,
   popularModules |-> SortByCount(EnrollmentCounts)]
\* the returned HRAnalytics object
calculateAnalytics ==
  [set |-> TRUE,
   totalModules |-> Len(modules),
   totalEnrollments |-> Len(enrollments),
   completionRate |-> completionRate,
   averageScore |-> averageScore,
   popularModules |-> Slice(SortByCount(EnrollmentCounts), PopularShown)]

\* a call of calculateAnalytics on the arrays as they stand
CallCalculateAnalytics ==
  /\ copy = "P0" /\ phase = "ready"
  /\ analytics' = calculateAnalytics
  /\ UNCHANGED <<storage, nextId, storeVars>>
  /\ UNCHANGED <<envVars, chatVars, quizVars, appVars, calls, posted>>

----------------------------------------------------------------------------
(* Agent gateway of part_000 and part_001 *)

\* A call record: kind of call, the user's message, where it stands ("awaiting" its reply, "done"
\* = ran to its last statement, "returned" = left by a return inside try,
\* "threw" = an exception escaped), the order in which it finished (0 while
\* awaiting) and, for generateAssessment, what it returned.
NewCall(kind, msg) ==
  [kind |-> kind, msg |-> msg, st |-> "awaiting", seq |-> 0, ret |-> <<>>]

\* the two fixed agent ids of part_000 / part_001 and of App.tsx
LEARN_AGENT_ID == "68e06493010a31eba989047d"
EVAL_AGENT_ID  == "68e064a097fff316128efaa2"
AppLearnAgent  == "68e0e0af615699d53b623bae"
\* variant: the grading call sends the learn agent's id
AppEvalAgent_learnId == "68e0e0af615699d53b623bae"
AppEvalAgent   == "68e0e0bc615699d53e623bae"

\* await fetch(url, {method: 'POST', ...}): the request of a new call leaves
\* in the step that starts the call
Request(c, agentId, userId, session) ==
  [call |-> c, agent_id |-> agentId, user_id |-> userId, session_id |-> session]
Fetch(kind, msg, agentId, userId, session) ==
  /\ calls' = Append(calls, NewCall(kind, msg))
  /\ posted' = Append(posted, Request(Len(calls) + 1, agentId, userId, session))
Finished == {c \in 1..Len(calls) : calls[c].st # "awaiting"}
Awaiting == {c \in 1..Len(calls) : calls[c].st = "awaiting"}
Finish(c, st, ret) ==
  [calls EXCEPT ![c].st = st, ![c].seq = Cardinality(Finished) + 1, ![c].ret = ret]

\* variant: a request is sent only when no other call is in flight
CanStartCall_oneInFlight == Len(calls) < MaxCalls /\ Awaiting = {}
\* no handler checks isTyping, calls in flight or a pending request before
\* it posts: a call can start whenever its control is on screen
CanStartCall == Len(calls) < MaxCalls

\* await fetch(...) followed by await response.json(): the try block goes on
\* only if both resolve
JsonArrived(reply) == reply.net = "ok" /\ responseJson(reply).ok
ParsedOf(reply) == parseLLMJson(responseJson(reply).data)

UserEntry(c, text) == [role |-> "user", content |-> text, call |-> c]
AssistantEntry(c, text) == [role |-> "assistant", content |-> text, call |-> c]

ChatTexts == {"", " ", "hi"}
Trim(text) == IF text = " " THEN "" ELSE text

LearnFallback ==
  "I understand your question but need more context from the module content to provide a specific answer."
LearnError ==
  "I'm having trouble processing your request right now. Please try again in a moment."
NoResponseText == "No response"
LearnSorry    == "Sorry, I encountered an error processing your request."
EvalSorry     == "Sorry, I encountered an error generating the assessment."

AgentFrame == UNCHANGED <<envVars, storage, nextId, storeVars, appVars, analytics>>

\* onChange of the chat input
SetCurrentAgentMessage(text) ==
  /\ InStore /\ Dashboard
  /\ text # currentAgentMessage
  /\ currentAgentMessage' = text
  /\ UNCHANGED <<agentChat, isTyping, quizVars, calls, posted>>
  /\ AgentFrame

\* callLearnAgent up to its await: the Send button and the Enter key of the
\* chat box run it for a non-blank input and clear the input.
callLearnAgent ==
  /\ InStore /\ Dashboard
  /\ Trim(currentAgentMessage) # ""
  /\ CanStartCall
  /\ isTyping' = TRUE
  /\ Fetch("learn", currentAgentMessage, LEARN_AGENT_ID,
           MadeId(Len(calls) + 1, copy = "P0" /\ bind = 1),
           MadeId(Len(calls) + 1, FALSE))
  /\ currentAgentMessage' = ""
  /\ UNCHANGED <<agentChat, quizVars>>
  /\ AgentFrame

\* the assistant text of callLearnAgent for one reply
\*   part_000 lines 248-282: parsedResponse?.response?.content || fallback
\*   part_000 lines 590-602, part_001 lines 189-201:
\*     parsedResponse.response?.content throws on null, inside the try
LearnAnswer(reply) ==
  IF ~JsonArrived(reply)
  THEN IF copy = "P0" /\ bind = 1 THEN LearnError ELSE LearnSorry
  ELSE LET parsed == ParsedOf(reply) IN
       IF copy = "P0" /\ bind = 1
       THEN OrStr(IF parsed.null \/ ~parsed.response.has
                  THEN NONE ELSE parsed.response.content, LearnFallback)
       ELSE IF parsed.null THEN LearnSorry
            ELSE OrStr(IF parsed.response.has THEN parsed.response.content ELSE NONE,
                       NoResponseText)

\* variant: the entries are put where the call was started, before the
\* entries of every call started later
LearnTranscript_byStart(chat, c, reply) ==
  LET later == {i \in 1..Len(chat) : chat[i].call > c}
      p == IF later = {} THEN Len(chat) + 1
           ELSE CHOOSE i \in later : \A j \in later : i <= j
  IN SubSeq(chat, 1, p - 1)
     \o <<UserEntry(c, calls[c].msg), AssistantEntry(c, LearnAnswer(reply))>>
     \o SubSeq(chat, p, Len(chat))
\* variant: the user entry goes in ahead of what the transcript holds and
\* the assistant entry at its end, as two separate updates would leave them
LearnTranscript_questionApart(chat, c, reply) ==
  <<UserEntry(c, calls[c].msg)>> \o chat \o <<AssistantEntry(c, LearnAnswer(reply))>>
\* callLearnAgent from its await to its end: one setAgentChat with both
\* entries, then setIsTyping(false)
LearnTranscript(chat, c, reply) ==
  chat \o <<UserEntry(c, calls[c].msg), AssistantEntry(c, LearnAnswer(reply))>>

callLearnAgentReply(c, reply) ==
  /\ InStore
  /\ UNCHANGED posted
  /\ c \in Awaiting /\ calls[c].kind = "learn"
  /\ agentChat' = LearnTranscript(agentChat, c, reply)
  /\ isTyping' = FALSE
  /\ calls' = Finish(c, "done", <<>>)
  /\ UNCHANGED <<currentAgentMessage, quizVars>>
  /\ AgentFrame

\* callEvalAgent up to its await: the AI Assessment tab and the two
\* assessment buttons of the module viewer
callEvalAgent ==
  /\ InStore /\ view = "employee-dashboard" /\ selectedModule # NoModule
  /\ CanStartCall
  /\ isTyping' = TRUE
  /\ Fetch("eval", "", EVAL_AGENT_ID,
           MadeId(Len(calls) + 1, FALSE), MadeId(Len(calls) + 1, FALSE))
  /\ UNCHANGED <<agentChat, currentAgentMessage, quizVars>>
  /\ AgentFrame

\* `Generated ${n} questions. Score: ${score}`
EvalAnswer(reply) ==
  IF ~JsonArrived(reply) THEN EvalSorry
  ELSE LET parsed == ParsedOf(reply) IN
       IF parsed.null THEN EvalSorry
       ELSE LET a == parsed.assessment
                n == IF a.has /\ a.questions.has THEN Len(a.questions.list) ELSE 0
                score == OrNum(IF a.has /\ a.evaluation.has
                               THEN a.evaluation.score ELSE NoNum, NoNum)
            IN "Generated " \o ToString(n) \o " questions. Score: "
               \o (IF score = NoNum THEN "N/A" ELSE ToString(score))

\* callEvalAgent from its await to its end: one assistant entry
EvalTranscript(chat, c, reply) == Append(chat, AssistantEntry(c, EvalAnswer(reply)))

callEvalAgentReply(c, reply) ==
  /\ InStore
  /\ UNCHANGED posted
  /\ c \in Awaiting /\ calls[c].kind = "eval"
  /\ agentChat' = EvalTranscript(agentChat, c, reply)
  /\ isTyping' = FALSE
  /\ calls' = Finish(c, "done", <<>>)
  /\ UNCHANGED <<currentAgentMessage, quizVars>>
  /\ AgentFrame

\* generateAssessment up to its await (part_000 lines 287-311)
generateAssessment ==
  /\ copy = "P0" /\ phase = "ready"
  /\ CanStartCall
  /\ isTyping' = TRUE
  /\ Fetch("generate", "", EVAL_AGENT_ID,
           MadeId(Len(calls) + 1, TRUE), MadeId(Len(calls) + 1, FALSE))
  /\ UNCHANGED <<agentChat, currentAgentMessage, quizVars>>
  /\ AgentFrame

GeneratedQuestion(q, index) ==
  [id |-> "gen_" \o ToString(index),
   question |-> OrStr(q.question, "Generated question"),
   type |-> "true-false",
   correctAnswer |-> OrStr(q.expected_answer, "True")]
DefaultQuestions ==
  << [id |-> "default_1",
      question |-> "What are the key concepts from this learning module?",
      type |-> "short-answer",
      correctAnswer |-> "Analysis of primary concepts based on the provided content"] >>
ErrorQuestions ==
  << [id |-> "error_1",
      question |-> "Summarize the main points from this learning module.",
      type |-> "short-answer",
      correctAnswer |-> "Key concepts and insights from the provided learning content"] >>

HasQuestions(parsed) ==
  ~parsed.null /\ parsed.assessment.has /\ parsed.assessment.questions.has

\* questions.map(q => ... q.question ...) throws a TypeError, inside the try,
\* on a null element
MapThrows(parsed) ==
  HasQuestions(parsed) /\ SeqSome(parsed.assessment.questions.list, LAMBDA q : q.null)

\* the try block of generateAssessment reaches one of its two returns
GenerateReturns(reply) == JsonArrived(reply) /\ ~MapThrows(ParsedOf(reply))

\* variant: reply questions without a text are skipped
GeneratedQuiz_skipsBlank(reply) ==
  IF ~GenerateReturns(reply) THEN ErrorQuestions
  ELSE LET parsed == ParsedOf(reply) IN
       IF HasQuestions(parsed)
       THEN LET qs == SelectSeq(parsed.assessment.questions.list,
                                LAMBDA q : q.question # NONE)
            IN [i \in 1..Len(qs) |-> GeneratedQuestion(qs[i], i - 1)]
       ELSE DefaultQuestions
\* the list generateAssessment builds for one reply (lines 313-357)
GeneratedQuiz(reply) ==
  IF ~GenerateReturns(reply) THEN ErrorQuestions
  ELSE LET parsed == ParsedOf(reply) IN
       IF HasQuestions(parsed)
       THEN LET qs == parsed.assessment.questions.list
            IN [i \in 1..Len(qs) |-> GeneratedQuestion(qs[i], i - 1)]
       ELSE DefaultQuestions

\* variant: a failed request is sent once more before the fallback is used
generateAssessmentReply_retry(c, reply) ==
  /\ copy = "P0" /\ phase = "ready"
  /\ c \in Awaiting /\ calls[c].kind = "generate"
  /\ IF ~JsonArrived(reply)
        /\ Cardinality({i \in 1..Len(posted) : posted[i].call = c}) < 2
     THEN /\ posted' = Append(posted, Request(c, EVAL_AGENT_ID, MadeId(c, TRUE),
                                              MadeId(c, FALSE)))
          /\ UNCHANGED <<calls, currentQuiz, currentQuizIndex, gradeResults>>
     ELSE /\ UNCHANGED posted
          /\ LET quiz == GeneratedQuiz(reply) IN
             /\ currentQuiz' = [set |-> TRUE, list |-> quiz]
             /\ IF GenerateReturns(reply) /\ HasQuestions(ParsedOf(reply))
                THEN /\ currentQuizIndex' = 0
                     /\ gradeResults' = NoGrade
                ELSE UNCHANGED <<currentQuizIndex, gradeResults>>
             /\ calls' = Finish(c, "returned", quiz)
  /\ UNCHANGED <<agentChat, isTyping, currentAgentMessage, isGrading>>
  /\ AgentFrame
\* generateAssessment from its await on: every branch returns inside the
\* try / catch, so the setIsTyping(false) of line 360 is never run
generateAssessmentReply(c, reply) ==
  /\ copy = "P0" /\ phase = "ready"
  /\ UNCHANGED posted
  /\ c \in Awaiting /\ calls[c].kind = "generate"
  /\ LET quiz == GeneratedQuiz(reply) IN
     /\ currentQuiz' = [set |-> TRUE, list |-> quiz]
     /\ IF GenerateReturns(reply) /\ HasQuestions(ParsedOf(reply))
        THEN /\ currentQuizIndex' = 0
             /\ gradeResults' = NoGrade
        ELSE UNCHANGED <<currentQuizIndex, gradeResults>>
     /\ calls' = Finish(c, "returned", quiz)
  /\ UNCHANGED <<agentChat, isTyping, currentAgentMessage, isGrading>>
  /\ AgentFrame

\* evaluateAssessment up to its await (part_000 lines 363-392, 443-472)
evaluateAssessment ==
  /\ copy = "P0" /\ phase = "ready"
  /\ CanStartCall
  /\ isGrading' = TRUE
  /\ Fetch("evaluate", "", EVAL_AGENT_ID,
           MadeId(Len(calls) + 1, TRUE), MadeId(Len(calls) + 1, FALSE))
  /\ UNCHANGED <<chatVars, currentQuiz, currentQuizIndex, gradeResults>>
  /\ AgentFrame

ThankYou    == "Thank you for completing the assessment."
GoodEffort  == "Good effort on the assessment. Here are some areas for improvement:"
EvalErrored ==
  "Assessment evaluation encountered an error. Based on your responses, focus on reviewing the core module concepts."
DefaultScore == 75
ErrorScore   == 60
FullMarks    == 100

HasEvaluation(parsed) ==
  ~parsed.null /\ parsed.assessment.has /\ parsed.assessment.evaluation.has

\* variant: the catch block only logs the error
Grade_catchOnlyLogs(reply) ==
  IF ~JsonArrived(reply) THEN gradeResults
  ELSE LET parsed == ParsedOf(reply) IN
       IF HasEvaluation(parsed)
       THEN LET evaluation == parsed.assessment.evaluation IN
            [set |-> TRUE,
             score |-> OrNum(evaluation.score, 0),
             total |-> FullMarks,
             feedback |-> OrStr(evaluation.feedback, ThankYou),
             gaps |-> IF evaluation.gaps_identified.has
                      THEN evaluation.gaps_identified.list ELSE <<>>]
       ELSE [set |-> TRUE, score |-> DefaultScore, total |-> FullMarks,
             feedback |-> GoodEffort,
             gaps |-> <<"Content comprehension", "Application of concepts">>]
\* the object evaluateAssessment hands to setGradeResults (lines 394-437)
Grade(reply) ==
  IF ~JsonArrived(reply)
  THEN [set |-> TRUE, score |-> ErrorScore, total |-> FullMarks,
        feedback |-> EvalErrored, gaps |-> <<"System processing">>]
  ELSE LET parsed == ParsedOf(reply) IN
       IF HasEvaluation(parsed)
       THEN LET evaluation == parsed.assessment.evaluation IN
            [set |-> TRUE,
             score |-> OrNum(evaluation.score, 0),
             total |-> FullMarks,
             feedback |-> OrStr(evaluation.feedback, ThankYou),
             gaps |-> IF evaluation.gaps_identified.has
                      THEN evaluation.gaps_identified.list ELSE <<>>]
       ELSE [set |-> TRUE, score |-> DefaultScore, total |-> FullMarks,
             feedback |-> GoodEffort,
             gaps |-> <<"Content comprehension", "Application of concepts">>]

\* evaluateAssessment from its await on: the two branches of the try return,
\* only the catch branch reaches setIsGrading(false)
evaluateAssessmentReply(c, reply) ==
  /\ copy = "P0" /\ phase = "ready"
  /\ UNCHANGED posted
  /\ c \in Awaiting /\ calls[c].kind = "evaluate"
  /\ gradeResults' = Grade(reply)
  /\ IF JsonArrived(reply)
     THEN /\ calls' = Finish(c, "returned", <<>>)
          /\ UNCHANGED isGrading
     ELSE /\ calls' = Finish(c, "done", <<>>)
          /\ isGrading' = FALSE
  /\ UNCHANGED <<chatVars, currentQuiz, currentQuizIndex>>
  /\ AgentFrame

----------------------------------------------------------------------------
(* App.tsx *)
InApp == copy = "App" /\ phase = "ready"
AppFrame == UNCHANGED <<envVars, storage, nextId, storeVars, chatVars, quizVars, courses,
                        sessionId, analytics>>

\* courses.find(c => c.id === id); NoCourse when there is none
FindCourse(id) ==
  IF \E i \in 1..Len(courses) : courses[i].id = id
  THEN courses[CHOOSE i \in 1..Len(courses) : courses[i].id = id]
  ELSE [id |-> NoCourse, lessons |-> <<>>]
\* course?.lessons.find(l => l.id === id)
FindLesson(course, id) ==
  IF \E i \in 1..Len(course.lessons) : course.lessons[i].id = id
  THEN course.lessons[CHOOSE i \in 1..Len(course.lessons) : course.lessons[i].id = id]
  ELSE [id |-> NoLesson, assessment |-> FALSE]
\* currentLesson?.assessment (the lesson object is held by its id)
AllLessons == UNION {{c.lessons[i] : i \in 1..Len(c.lessons)} :
                     c \in {SampleCourses[j] : j \in 1..Len(SampleCourses)}}
LessonHasAssessment(id) == \E l \in AllLessons : l.id = id /\ l.assessment

\* renderContent: which of the three employee panes is on screen
LessonPane == currentCourse # NoCourse /\ currentLesson # NoLesson /\ ~isAssessmentMode
AssessmentPane == ~LessonPane /\ isAssessmentMode /\ LessonHasAssessment(currentLesson)
DashboardPane == ~LessonPane /\ ~AssessmentPane

setCurrentRole(role) ==
  /\ InApp /\ role # currentRole
  /\ currentRole' = role
  /\ UNCHANGED <<currentCourse, currentLesson, isAssessmentMode, chatMessages,
                 chatInput, isChatLoading, calls, posted>>
  /\ AppFrame

\* the Continue Learning button of an assignment card
ContinueLearning(a) ==
  /\ InApp /\ currentRole = "employee" /\ DashboardPane
  /\ a \in 1..Len(SampleAssignments)
  /\ LET course == FindCourse(SampleAssignments[a].courseId) IN
     /\ currentCourse' = course.id
     /\ currentLesson' = IF Len(course.lessons) > 0
                         THEN course.lessons[1].id ELSE currentLesson
  /\ UNCHANGED <<currentRole, isAssessmentMode, chatMessages, chatInput,
                 isChatLoading, calls, posted>>
  /\ AppFrame

\* variant: Take Assessment is offered for every lesson, with or without an
\* assessment
setIsAssessmentMode_anyLesson(b) ==
  /\ InApp /\ currentRole = "employee"
  /\ IF b THEN LessonPane ELSE AssessmentPane
  /\ isAssessmentMode' = b
  /\ UNCHANGED <<currentRole, currentCourse, currentLesson, chatMessages, chatInput,
                 isChatLoading, calls, posted>>
  /\ AppFrame
\* Take Assessment (lesson pane) and Cancel (assessment pane)
setIsAssessmentMode(b) ==
  /\ InApp /\ currentRole = "employee"
  /\ IF b THEN LessonPane /\ LessonHasAssessment(currentLesson)
          ELSE AssessmentPane
  /\ isAssessmentMode' = b
  /\ UNCHANGED <<currentRole, currentCourse, currentLesson, chatMessages, chatInput,
                 isChatLoading, calls, posted>>
  /\ AppFrame

setChatInput(text) ==
  /\ InApp /\ currentRole = "employee"
  /\ text # chatInput
  /\ chatInput' = text
  /\ UNCHANGED <<currentRole, currentCourse, currentLesson, isAssessmentMode,
                 chatMessages, isChatLoading, calls, posted>>
  /\ AppFrame

\* `Can you provide a summary of this lesson titled "${currentLesson.title}"?`
SummaryText == "Can you provide a summary of this lesson titled \"" \o currentLesson \o "\"?"

\* handleLearningQuestion(question) up to the await inside callAgent:
\* returns at once without a lesson; else raises the flag, appends the user
\* entry and posts.
handleLearningQuestion(question) ==
  IF currentLesson = NoLesson
  THEN UNCHANGED <<isChatLoading, chatMessages, calls, posted>>
  ELSE /\ CanStartCall
       /\ isChatLoading' = TRUE
       /\ chatMessages' = Append(chatMessages, UserEntry(Len(calls) + 1, question))
       /\ Fetch("question", question, AppLearnAgent,
                MadeId(Len(calls) + 1, TRUE), sessionId)

\* Send button: only for a non-blank input, and clears it
SendButton ==
  /\ InApp /\ currentRole = "employee"
  /\ Trim(chatInput) # ""
  /\ handleLearningQuestion(chatInput)
  /\ chatInput' = ""
  /\ UNCHANGED <<currentRole, currentCourse, currentLesson, isAssessmentMode>>
  /\ AppFrame

\* Enter key: e.key === 'Enter' && handleLearningQuestion(chatInput)
EnterKey ==
  /\ InApp /\ currentRole = "employee"
  /\ handleLearningQuestion(chatInput)
  /\ UNCHANGED <<currentRole, currentCourse, currentLesson, isAssessmentMode, chatInput>>
  /\ AppFrame

\* Summary button of the lesson pane
SummaryButton ==
  /\ InApp /\ currentRole = "employee" /\ LessonPane
  /\ handleLearningQuestion(SummaryText)
  /\ UNCHANGED <<currentRole, currentCourse, currentLesson, isAssessmentMode, chatInput>>
  /\ AppFrame

\* callAgent after its await: null when fetch rejects, else whatever
\* parseLLMJson makes of the body text
callAgent(reply) ==
  IF reply.net = "fail" THEN NULLV ELSE parseLLMJson(responseText(reply))

CouldNotProcess == "I could not process your question at the moment."

\* handleLearningQuestion after the await: the assistant entry is appended
\* only for a truthy reply, and response.result.response throws, outside any
\* try, when the reply has no result.
handleLearningQuestionReply(c, reply) ==
  /\ InApp
  /\ UNCHANGED posted
  /\ c \in Awaiting /\ calls[c].kind = "question"
  /\ LET response == callAgent(reply) IN
     IF response.null
     THEN /\ isChatLoading' = FALSE
          /\ calls' = Finish(c, "done", <<>>)
          /\ UNCHANGED chatMessages
     ELSE IF ~response.result.has
     THEN /\ calls' = Finish(c, "threw", <<>>)
          /\ UNCHANGED <<chatMessages, isChatLoading>>
     ELSE /\ chatMessages' = Append(chatMessages,
                 AssistantEntry(c, OrStr(response.result.response, CouldNotProcess)))
          /\ isChatLoading' = FALSE
          /\ calls' = Finish(c, "done", <<>>)
  /\ UNCHANGED <<currentRole, currentCourse, currentLesson, isAssessmentMode, chatInput>>
  /\ AppFrame

\* Submit Assessment: evaluateAssessment(currentCourse.id, currentLesson.id,
\* answers) up to the await; it returns null, with the flag raised, when the
\* lesson or its assessment is not found, and the button then leaves the
\* assessment pane.
SubmitAssessment ==
  /\ InApp /\ currentRole = "employee" /\ AssessmentPane
  /\ currentCourse # NoCourse /\ currentLesson # NoLesson
  /\ isChatLoading' = TRUE
  /\ LET lesson == FindLesson(FindCourse(currentCourse), currentLesson) IN
     IF lesson.id = NoLesson \/ ~lesson.assessment
     THEN /\ isAssessmentMode' = FALSE
          /\ UNCHANGED <<calls, posted>>
     ELSE /\ CanStartCall
          /\ Fetch("assess", "", AppEvalAgent,
                   MadeId(Len(calls) + 1, TRUE), sessionId)
          /\ UNCHANGED isAssessmentMode
  /\ UNCHANGED <<currentRole, currentCourse, currentLesson, chatMessages, chatInput>>
  /\ AppFrame

\* `Assessment completed! Score: ${score}/100`
AssessAnswer(result) ==
  OrStr(result.summary,
        "Assessment completed! Score: "
        \o (IF result.score = NoNum THEN "undefined" ELSE ToString(result.score))
        \o "/100")

\* evaluateAssessment after the await, then the rest of the button handler
SubmitAssessmentReply(c, reply) ==
  /\ InApp
  /\ UNCHANGED posted
  /\ c \in Awaiting /\ calls[c].kind = "assess"
  /\ LET response == callAgent(reply) IN
     IF response.null
     THEN /\ isChatLoading' = FALSE
          /\ isAssessmentMode' = FALSE
          /\ calls' = Finish(c, "done", <<>>)
          /\ UNCHANGED chatMessages
     ELSE IF ~response.result.has
     THEN /\ calls' = Finish(c, "threw", <<>>)
          /\ UNCHANGED <<chatMessages, isChatLoading, isAssessmentMode>>
     ELSE /\ chatMessages' = Append(chatMessages,
                                    AssistantEntry(c, AssessAnswer(response.result)))
          /\ isChatLoading' = FALSE
          /\ isAssessmentMode' = FALSE
          /\ calls' = Finish(c, "done", <<>>)
  /\ UNCHANGED <<currentRole, currentCourse, currentLesson, chatInput>>
  /\ AppFrame

----------------------------------------------------------------------------
(* The specification *)
CallIds == 1..MaxCalls

Next ==
  \/ MountP0
  \/ MountP1
  \/ MountSettleP1
  \/ MountApp
  \/ Reload
  \/ \E mode \in {"login", "register"}, formRole \in Roles, isOrg \in BOOLEAN :
       handleAuth(mode, formRole, isOrg)
  \/ SignOut
  \/ SwitchToEmployeeView
  \/ SwitchToHRView
  \/ \E b \in BOOLEAN : SetShowCreateModule(b)
  \/ createModule
  \/ \E i \in 1..MaxIds : SelectModule(i)
  \/ CloseModule
  \/ \E i \in 1..MaxIds : EnrollNow(i)
  \/ EnrollInViewer
  \/ \E id \in 1..MaxIds, progress \in ProgressVals : updateProgress(id, progress)
  \/ \E id \in 1..MaxIds, score \in ScoreVals : completeEnrollment(id, score)
  \/ \E text \in ChatTexts : SetCurrentAgentMessage(text)
  \/ callLearnAgent
  \/ \E c \in CallIds, reply \in Replies : callLearnAgentReply(c, reply)
  \/ callEvalAgent
  \/ \E c \in CallIds, reply \in Replies : callEvalAgentReply(c, reply)
  \/ generateAssessment
  \/ \E c \in CallIds, reply \in Replies : generateAssessmentReply(c, reply)
  \/ evaluateAssessment
  \/ \E c \in CallIds, reply \in Replies : evaluateAssessmentReply(c, reply)
  \/ \E role \in Roles : setCurrentRole(role)
  \/ \E a \in 1..Len(SampleAssignments) : ContinueLearning(a)
  \/ \E b \in BOOLEAN : setIsAssessmentMode(b)
  \/ \E text \in ChatTexts : setChatInput(text)
  \/ SendButton
  \/ EnterKey
  \/ SummaryButton
  \/ \E c \in CallIds, reply \in Replies : handleLearningQuestionReply(c, reply)
  \/ SubmitAssessment
  \/ \E c \in CallIds, reply \in Replies : SubmitAssessmentReply(c, reply)

Spec == Init /\ [][Next]_vars

----------------------------------------------------------------------------
(* The store handlers neither read nor write the gateway's variables, and   *)
(* the gateway reads of the store only the view and the selected module     *)
(* (the frames above).  The claims are checked on the three parts of Next.  *)

InitModules == copy \in {"P0", "P1"} /\ Init
InitP0 == copy = "P0" /\ Init
InitApp == copy = "App" /\ Init

\* the client state store of part_000 / part_001
NextStore ==
  \/ MountP0
  \/ MountP1
  \/ MountSettleP1
  \/ Reload
  \/ \E mode \in {"login", "register"}, formRole \in Roles, isOrg \in BOOLEAN :
       handleAuth(mode, formRole, isOrg)
  \/ SignOut
  \/ SwitchToEmployeeView
  \/ SwitchToHRView
  \/ \E b \in BOOLEAN : SetShowCreateModule(b)
  \/ createModule
  \/ \E i \in 1..MaxIds : SelectModule(i)
  \/ CloseModule
  \/ \E i \in 1..MaxIds : EnrollNow(i)
  \/ EnrollInViewer
  \/ \E id \in 1..MaxIds, progress \in ProgressVals : updateProgress(id, progress)
  \/ \E id \in 1..MaxIds, score \in ScoreVals : completeEnrollment(id, score)
SpecStore == InitModules /\ [][NextStore]_vars

\* the store handlers that bring the gateway's controls on screen: a signed-in
\* user on a dashboard, a module selected in the viewer
OnScreen ==
  \/ MountP0
  \/ MountP1
  \/ MountSettleP1
  \/ \E mode \in {"login", "register"}, formRole \in Roles, isOrg \in BOOLEAN :
       nextId < MaxGatewayIds /\ handleAuth(mode, formRole, isOrg)
  \/ SwitchToEmployeeView
  \/ \E b \in BOOLEAN : SetShowCreateModule(b)
  \/ nextId < MaxGatewayIds /\ createModule
  \/ \E i \in 1..MaxIds : SelectModule(i)
  \/ \E text \in ChatTexts : SetCurrentAgentMessage(text)

\* the chat calls of part_000 / part_001
NextChat ==
  \/ OnScreen
  \/ callLearnAgent
  \/ \E c \in CallIds, reply \in Replies : callLearnAgentReply(c, reply)
  \/ callEvalAgent
  \/ \E c \in CallIds, reply \in Replies : callEvalAgentReply(c, reply)
SpecChat == InitModules /\ [][NextChat]_vars

\* the assessment calls of part_000
NextQuiz ==
  \/ MountP0
  \/ generateAssessment
  \/ \E c \in CallIds, reply \in Replies : generateAssessmentReply(c, reply)
  \/ evaluateAssessment
  \/ \E c \in CallIds, reply \in Replies : evaluateAssessmentReply(c, reply)
SpecQuiz == InitP0 /\ [][NextQuiz]_vars

\* App.tsx
NextApp ==
  \/ MountApp
  \/ \E role \in Roles : setCurrentRole(role)
  \/ \E a \in 1..Len(SampleAssignments) : ContinueLearning(a)
  \/ \E b \in BOOLEAN : setIsAssessmentMode(b)
  \/ \E text \in ChatTexts : setChatInput(text)
  \/ SendButton
  \/ EnterKey
  \/ SummaryButton
  \/ \E c \in CallIds, reply \in Replies : handleLearningQuestionReply(c, reply)
  \/ SubmitAssessment
  \/ \E c \in CallIds, reply \in Replies : SubmitAssessmentReply(c, reply)
SpecApp == InitApp /\ [][NextApp]_vars

\* the assessment calls of part_000 and of App.tsx
InitGrading == copy \in {"P0", "App"} /\ Init
NextGrading ==
  \/ NextQuiz
  \/ NextApp
SpecGrading == InitGrading /\ [][NextGrading]_vars

\* the chat calls of the three copies
NextOverlap ==
  \/ NextChat
  \/ NextApp
SpecOverlap == Init /\ [][NextOverlap]_vars

\* calculateAnalytics on arrays of every shape within the bounds: modules
\* 1..n created by one HR user, every enrollment by a user of its own, for
\* one of the modules, open or completed with or without a score
MaxModules     == 6
MaxEnrollments == 3
EnrolledIn     == {1, 2, 6}
EnrollmentScores == {NoNum, 0, 75, 100}
ModuleArray(n) ==
  [i \in 1..n |-> [id |-> i, createdBy |-> MaxModules + 1, creatorRole |-> "hr"]]
EnrollmentShapes(n) ==
  {[moduleId |-> m, completed |-> FALSE, score |-> NoNum] : m \in EnrolledIn \cap 1..n}
  \cup {[moduleId |-> m, completed |-> TRUE, score |-> sc] :
          m \in EnrolledIn \cap 1..n, sc \in EnrollmentScores}
EnrollmentArray(shapes) ==
  [i \in 1..Len(shapes) |->
     [id |-> 2 * MaxModules + i,
      userId |-> 3 * MaxModules + i,
      moduleId |-> shapes[i].moduleId,
      progress |-> IF shapes[i].completed THEN 100 ELSE 0,
      completed |-> shapes[i].completed,
      score |-> shapes[i].score]]
InitAnalytics ==
  /\ copy = "P0" /\ bind \in {1, 2}
  /\ phase = "ready"
  /\ storage = EmptyStorage
  /\ nextId = 0
  /\ reloads = 0
  /\ \E n \in 0..MaxModules :
       /\ modules = ModuleArray(n)
       /\ \E k \in 0..MaxEnrollments :
            \E shapes \in [1..k -> EnrollmentShapes(n)] :
              enrollments = EnrollmentArray(shapes)
  /\ ConstructedRest
NextAnalytics == CallCalculateAnalytics
SpecAnalytics == InitAnalytics /\ [][NextAnalytics]_vars

----------------------------------------------------------------------------
(* Properties *)

\* the chat transcript of the running copy
Transcript == IF copy = "App" THEN chatMessages ELSE agentChat
\* the entries of one role that a call put into the transcript
EntriesOf(c, role) ==
  {i \in 1..Len(Transcript) : Transcript[i].call = c /\ Transcript[i].role = role}
\* the POSTs a call has sent
PostsOf(c) == {i \in 1..Len(posted) : posted[i].call = c}

\* C1: every agent gateway call that has finished, whatever its reply, has
\* appended exactly one user entry and exactly one assistant entry to the
\* chat transcript.
C1_OneUserOneAssistantPerCall ==
  \A c \in Finished :
    /\ Cardinality(EntriesOf(c, "user")) = 1
    /\ Cardinality(EntriesOf(c, "assistant")) = 1

\* C2: a step of createModule, enrollInModule, updateProgress or
\* completeEnrollment that changes the modules or the enrollments array leaves
\* under that array's key the JSON serialization of the new array.
C2_StorageMirrorsArrays ==
  [][(phase = "ready" /\ phase' = "ready") =>
       /\ modules' # modules => storage'.modules = JSONstringify(modules')
       /\ enrollments' # enrollments =>
            storage'.enrollments = JSONstringify(enrollments')]_vars

\* C3: no failure of an agent call escapes its handler as an exception: every
\* call that is no longer awaiting its reply ran to a return or to its end.
C3_NoExceptionEscapes ==
  \A c \in 1..Len(calls) : calls[c].st # "threw"

\* the user record localStorage holds, NoUser when it holds none
StoredUser ==
  IF Truthy(storage.users) /\ Len(JSONparse(storage.users)) > 0
  THEN JSONparse(storage.users)[1] ELSE NoUser

\* C4: once the application has left the auth view (after register, login
\* or Sign Out) the user record in localStorage is the in-memory current user;
\* after Sign Out none is stored.
C4_StoredUserIsCurrentUser ==
  (phase = "ready" /\ view # "auth") => StoredUser = currentUser

\* C5: every module of the modules array was created while the current user
\* had role hr.
C5_OnlyHRAuthorsModules ==
  \A i \in 1..Len(modules) : modules[i].creatorRole = "hr"

\* C6: every agent call has sent exactly one POST, whether it is still
\* awaiting its reply or has finished, with a usable reply or not; and every
\* POST belongs to a call.
C6_ExactlyOnePostPerCall ==
  /\ \A c \in 1..Len(calls) : Cardinality(PostsOf(c)) = 1
  /\ \A i \in 1..Len(posted) : posted[i].call \in 1..Len(calls)
\* a generateAssessment call whose request failed has finished on its fallback
\* with its one POST
C6_FailedCallPostedOnce ==
  \E c \in Finished :
    /\ calls[c].kind = "generate" /\ calls[c].ret = ErrorQuestions
    /\ Cardinality(PostsOf(c)) = 1

\* the reply is a JSON body that response.json() resolves with
ArrivedAsJson(reply) == reply.net = "ok" /\ reply.form = "json"

\* C7: every completion of evaluateAssessment leaves gradeResults set with
\* total 100; with assessment.evaluation in the reply: its score (0 when
\* missing), its feedback (the thank-you text when missing) and its gaps
\* (empty when missing); without an evaluation: score 75 and the good-effort
\* text; when the request or the parsing throws: score 60 and the error text.
C7_EvaluateAlwaysGrades ==
  [][\A c \in CallIds, reply \in Replies :
       evaluateAssessmentReply(c, reply) =>
         LET v == reply.value
             ev == v.assessment.evaluation
             hasEv == ~v.null /\ v.assessment.has /\ ev.has
         IN /\ gradeResults'.set
            /\ gradeResults'.total = 100
            /\ (ArrivedAsJson(reply) /\ hasEv) =>
                 /\ gradeResults'.score = (IF ev.score = NoNum THEN 0 ELSE ev.score)
                 /\ gradeResults'.feedback =
                      (IF ev.feedback = NONE THEN ThankYou ELSE ev.feedback)
                 /\ gradeResults'.gaps =
                      (IF ev.gaps_identified.has THEN ev.gaps_identified.list ELSE <<>>)
            /\ (ArrivedAsJson(reply) /\ ~hasEv) =>
                 /\ gradeResults'.score = 75
                 /\ gradeResults'.feedback = GoodEffort
            /\ ~ArrivedAsJson(reply) =>
                 /\ gradeResults'.score = 60
                 /\ gradeResults'.feedback = EvalErrored]_vars
\* an evaluateAssessment call whose request threw has run to its end and left
\* the score-60 result
C7_GradedAfterThrow ==
  /\ \E c \in Finished : calls[c].kind = "evaluate" /\ calls[c].st = "done"
  /\ gradeResults.set /\ gradeResults.score = 60 /\ gradeResults.total = 100

LearnDone == {c \in Finished : calls[c].kind = "learn"}
\* the transcript positions of a call's entries
PositionsOf(c) == EntriesOf(c, "user") \cup EntriesOf(c, "assistant")

\* C9: of two finished callLearnAgent calls, the entries of the one whose
\* reply (or failure) arrived first all stand before the entries of the
\* other, whichever of the two was started first.
C9_EntriesInArrivalOrder ==
  \A a, b \in LearnDone :
    calls[a].seq < calls[b].seq =>
      \A i \in PositionsOf(a), j \in PositionsOf(b) : i < j
\* two callLearnAgent calls overlapped and the one started second finished
\* first: its two entries open the transcript
C9_LaterCallAnsweredFirst ==
  /\ LearnDone = {1, 2}
  /\ calls[2].seq < calls[1].seq
  /\ PositionsOf(2) = {1, 2} /\ PositionsOf(1) = {3, 4}

\* a call is awaiting its reply and another one may still be started
EarlierCallAwaiting == Awaiting # {} /\ Len(calls) < MaxCalls

\* every call control on screen starts a call although one is awaiting its
\* reply, every call has its request out, every finished call its entries
NothingSuppressedOrQueued ==
  /\ EarlierCallAwaiting =>
       /\ (InStore /\ Dashboard /\ Trim(currentAgentMessage) # "")
            => ENABLED callLearnAgent
       /\ (InStore /\ view = "employee-dashboard" /\ selectedModule # NoModule)
            => ENABLED callEvalAgent
       /\ (InApp /\ currentRole = "employee" /\ LessonPane)
            => ENABLED SummaryButton
  /\ \A c \in 1..Len(calls) : PostsOf(c) # {}
  /\ \A c \in Finished :
       /\ calls[c].kind \in {"learn", "eval"} => EntriesOf(c, "assistant") # {}
       /\ calls[c].kind \in {"learn", "question"} => EntriesOf(c, "user") # {}
\* a step changes a call only by finishing it, leaves every other call as it
\* was, and removes no call and no transcript entry
NothingCancelled ==
  /\ Len(calls') >= Len(calls)
  /\ \A c \in 1..Len(calls) :
       calls'[c] # calls[c] =>
         /\ c \in Awaiting /\ calls'[c].st # "awaiting"
         /\ \A d \in 1..Len(calls) \ {c} : calls'[d] = calls[d]
  /\ Len(Transcript') >= Len(Transcript)
  /\ SubSeq(Transcript', 1, Len(Transcript)) = Transcript

\* C10: while a call awaits its reply, every call control on screen still
\* starts a new call, and every started call has its request out (nothing is
\* suppressed or queued); a call changes only in its own reply step (nothing
\* is cancelled); and no step removes a call or a transcript entry, so what
\* each call applied stays applied.
C10_CallsAreIndependent ==
  /\ []NothingSuppressedOrQueued
  /\ [][NothingCancelled]_vars
\* part_001: callEvalAgent was started while callLearnAgent was awaiting its
\* reply, finished first, and both have their entries in the transcript
C10_BothOverlappingCallsApplied ==
  /\ copy = "P1" /\ Len(calls) = 2 /\ Finished = {1, 2}
  /\ calls[1].kind = "learn" /\ calls[2].kind = "eval"
  /\ calls[2].seq < calls[1].seq
  /\ EntriesOf(2, "assistant") = {1} /\ EntriesOf(1, "assistant") = {3}

\* C11: every request carries a user id and a session id that were built by
\* the call that sends it, each from the current timestamp and a random
\* suffix; no request carries an id made by an earlier call or at mount.
C11_IdsBuiltPerCall ==
  \A i \in 1..Len(posted) :
    /\ posted[i].user_id = MadeId(posted[i].call, TRUE)
    /\ posted[i].session_id = MadeId(posted[i].call, TRUE)

\* the array a stored item holds; empty when nothing is stored
StoredArray(item) == IF Truthy(item) THEN JSONparse(item) ELSE <<>>

\* C12: no step of the mount (load effect, save effects, re-render) replaces a
\* stored modules or enrollments item by a different value, and when the mount
\* has settled the in-memory arrays are the stored ones, empty for cleared
\* storage.
C12_ReloadRestoresSnapshot ==
  [][phase # "ready" =>
       /\ Truthy(storage.modules) => storage'.modules = storage.modules
       /\ Truthy(storage.enrollments) => storage'.enrollments = storage.enrollments
       /\ phase' = "ready" =>
            /\ modules' = StoredArray(storage'.modules)
            /\ enrollments' = StoredArray(storage'.enrollments)]_vars

\* the kinds of call that put a question to the learn agent
ChatKinds == {"learn", "question"}

\* C13: every request carries one of the two agent ids of the running copy:
\* the learn agent's id when the call is a chat / question call, the eval
\* agent's id when it generates or grades an assessment.
C13_TwoFixedAgentIds ==
  \A i \in 1..Len(posted) :
    LET chat == calls[posted[i].call].kind \in ChatKinds IN
    posted[i].agent_id =
      IF copy = "App"
      THEN (IF chat THEN "68e0e0af615699d53b623bae" ELSE "68e0e0bc615699d53e623bae")
      ELSE (IF chat THEN "68e06493010a31eba989047d" ELSE "68e064a097fff316128efaa2")
\* App.tsx has sent a question and an assessment, each to its own agent
C13_BothAgentsAddressed ==
  /\ copy = "App" /\ Len(posted) = 2
  /\ calls[1].kind = "question" /\ posted[1].agent_id = "68e0e0af615699d53b623bae"
  /\ calls[2].kind = "assess" /\ posted[2].agent_id = "68e0e0bc615699d53e623bae"

\* C14: for every body text that can come back to a call awaiting its reply,
\* parseLLMJson returns the value of a well-formed JSON text, the object
\* embedded in a text with prose around it, and otherwise (no JSON at all, or
\* no object in it) the safe default; it returns for every input.
C14_ParseLLMJsonCases ==
  \A c \in Awaiting, reply \in Replies :
    LET text == responseText(reply)
        parsed == parseLLMJson(text)
    IN /\ parsed \in Values
       /\ text.form = "json" => parsed = reply.value
       /\ (text.form = "prose" /\ ~reply.value.null) => parsed = reply.value
       /\ (text.form = "prose" /\ reply.value.null) => parsed = NULLV
       /\ text.form = "garbage" => parsed = NULLV
\* App.tsx has handed a body text to parseLLMJson and shown the answer it
\* found in it
C14_ParsedAnswerShown ==
  /\ copy = "App"
  /\ \E c \in Finished :
       /\ calls[c].kind = "question" /\ calls[c].st = "done"
       /\ \E i \in EntriesOf(c, "assistant") : chatMessages[i].content = "answer"

\* C15: whenever no agent call is awaiting its reply, every busy flag is
\* down: each operation that raised isTyping, isGrading or isChatLoading has
\* lowered it on the path it finished by.
C15_FlagsDownWhenIdle ==
  Awaiting = {} => ~isTyping /\ ~isGrading /\ ~isChatLoading

\* C16: no two records of the enrollments array have the same user id and the
\* same module id, and the stored array, when there is one, has none either.
C16_OneEnrollmentPerUserAndModule ==
  /\ \A i, j \in 1..Len(enrollments) :
       (enrollments[i].userId = enrollments[j].userId
        /\ enrollments[i].moduleId = enrollments[j].moduleId) => i = j
  /\ LET stored == StoredArray(storage.enrollments) IN
     \A i, j \in 1..Len(stored) :
       (stored[i].userId = stored[j].userId
        /\ stored[i].moduleId = stored[j].moduleId) => i = j
\* part_001: the signed-in user has enrolled and has the module viewer open
\* on the module they are enrolled in
C16_ViewerOnEnrolledModule ==
  /\ copy = "P1" /\ phase = "ready" /\ view = "employee-dashboard"
  /\ currentUser # NoUser
  /\ selectedModule # NoModule /\ IsEnrolled(selectedModule)
  /\ Len(enrollments) = 1

\* C17: whenever the view is hr-dashboard or employee-dashboard a user is
\* signed in; currentUser is null only on the auth view.
C17_DashboardHasUser ==
  (phase = "ready" /\ Dashboard) => currentUser # NoUser

\* C18: in the module-based copies every user entry of the transcript is
\* immediately followed by the assistant entry of the same call, also when
\* chat and eval calls overlap and finish in any order.
C18_UserEntryThenItsAnswer ==
  copy # "App" =>
    \A i \in 1..Len(agentChat) :
      agentChat[i].role = "user" =>
        /\ i < Len(agentChat)
        /\ agentChat[i + 1].role = "assistant"
        /\ agentChat[i + 1].call = agentChat[i].call
\* a callLearnAgent call and a callEvalAgent call started after it
\* overlapped and the eval call finished first: its entry opens the
\* transcript, the pair of the learn call follows
C18_EvalAnsweredDuringLearn ==
  /\ copy = "P1" /\ Finished = {1, 2}
  /\ calls[1].kind = "learn" /\ calls[2].kind = "eval"
  /\ calls[2].seq < calls[1].seq
  /\ EntriesOf(2, "assistant") = {1}
  /\ EntriesOf(1, "user") = {2} /\ EntriesOf(1, "assistant") = {3}

\* the callLearnAgent and callEvalAgent calls still awaiting their reply
ChatAwaiting == {c \in Awaiting : calls[c].kind \in {"learn", "eval"}}
\* C19: while at least one callLearnAgent or callEvalAgent call is still
\* awaiting its reply, isTyping is true.
C19_TypingWhileAwaiting ==
  (copy # "App" /\ ChatAwaiting # {}) => isTyping

\* C20: completion is stable: an enrollment that completeEnrollment has
\* marked completed stays completed with progress 100 through every later
\* enrollInModule, updateProgress and completeEnrollment; completed implies
\* progress = 100 in every state.
C20_CompletedKeepsFullProgress ==
  /\ \A i \in 1..Len(enrollments) :
       enrollments[i].completed => enrollments[i].progress = 100
  /\ \A i \in 1..Len(StoredArray(storage.enrollments)) :
       StoredArray(storage.enrollments)[i].completed
         => StoredArray(storage.enrollments)[i].progress = 100

\* a generateAssessment call finishes in this step
GenerateFinishes ==
  \E c \in Awaiting : calls[c].kind = "generate" /\ calls'[c].st # "awaiting"
\* C21: whenever generateAssessment finishes, with generated questions,
\* with the no-questions fallback or with the error fallback, gradeResults
\* is null and currentQuizIndex is 0.
C21_GenerateDiscardsGrade ==
  [][GenerateFinishes => (gradeResults' = NoGrade /\ currentQuizIndex' = 0)]_vars

\* the text of the chat input of the running copy
ChatBox == IF copy = "App" THEN chatInput ELSE currentAgentMessage
\* this step posts a chat request whose message is the text of the chat input
InputSubmitted ==
  /\ Len(calls') = Len(calls) + 1
  /\ calls'[Len(calls')].kind \in ChatKinds
  /\ calls'[Len(calls')].msg = ChatBox
\* this step adds a user entry of blank content to the transcript
BlankEntryAdded ==
  \E i \in (Len(Transcript) + 1)..Len(Transcript') :
    Transcript'[i].role = "user" /\ Trim(Transcript'[i].content) = ""
\* C22: a blank chat input never reaches the agent: submitting an empty or
\* whitespace-only input by the Send button or the Enter key sends no
\* request and adds no transcript entry, and every submission that is sent
\* clears the input field.
C22_BlankInputNotSent ==
  [][/\ Trim(ChatBox) = "" => ~InputSubmitted
     /\ ~BlankEntryAdded
     /\ InputSubmitted => ChatBox' = ""]_vars

\* the lesson that evaluateAssessment finds for the current course and lesson
FoundLesson == FindLesson(FindCourse(currentCourse), currentLesson)
\* C23: in App.tsx, if currentLesson is non-null then currentCourse is
\* non-null and currentLesson is one of its lessons, and isAssessmentMode is
\* true only while currentLesson has an assessment, so evaluateAssessment
\* submitted from the assessment view finds its course, lesson and assessment.
C23_LessonOfCourseAndAssessable ==
  copy = "App" =>
    /\ currentLesson # NoLesson =>
         /\ currentCourse # NoCourse
         /\ FindCourse(currentCourse).id = currentCourse
         /\ FoundLesson.id = currentLesson
    /\ isAssessmentMode =>
         /\ currentLesson # NoLesson
         /\ FoundLesson.assessment
\* the assessment of lesson 1-1 has been submitted from the assessment view
\* and its request is awaiting the reply
C23_AssessmentSubmitted ==
  /\ copy = "App" /\ isAssessmentMode
  /\ currentCourse = "1" /\ currentLesson = "1-1"
  /\ \E c \in Awaiting : calls[c].kind = "assess"

\* the scores of the completed enrollments added up, a missing score as 0
RECURSIVE ScoreTotal(_)
ScoreTotal(n) ==
  IF n = 0 THEN 0
  ELSE ScoreTotal(n - 1)
       + (IF enrollments[n].completed /\ enrollments[n].score # NoNum
          THEN enrollments[n].score ELSE 0)
CompletedCount == Cardinality({i \in 1..Len(enrollments) : enrollments[i].completed})
EnrolledCount(moduleId) ==
  Cardinality({i \in 1..Len(enrollments) : enrollments[i].moduleId = moduleId})
\* r is an integer nearest to the quotient num / den, den > 0
Nearest(r, num, den) ==
  /\ 2 * (r * den - num) <= den
  /\ 2 * (num - r * den) <= den
\* C24: calculateAnalytics returns totalModules and totalEnrollments equal
\* to the array lengths; completionRate = 100 x completed / total rounded
\* to the nearest integer, 0 without enrollments, always within 0..100;
\* averageScore = the rounded mean score of the completed enrollments, a
\* missing score counted as 0, and 0 when none is completed; popularModules
\* = at most 5 modules in non-increasing order of their enrollment count,
\* each count the number of enrollments for that module id.
C24_AnalyticsAsDescribed ==
  analytics.set =>
    /\ analytics.totalModules = Len(modules)
    /\ analytics.totalEnrollments = Len(enrollments)
    /\ analytics.completionRate \in 0..100
    /\ IF Len(enrollments) = 0
       THEN analytics.completionRate = 0
       ELSE Nearest(analytics.completionRate, 100 * CompletedCount, Len(enrollments))
    /\ IF CompletedCount = 0
       THEN analytics.averageScore = 0
       ELSE Nearest(analytics.averageScore, ScoreTotal(Len(enrollments)), CompletedCount)
    /\ LET popular == analytics.popularModules IN
       /\ Len(popular) <= 5
       /\ \A i \in 1..Len(popular) :
            /\ \E j \in 1..Len(modules) : modules[j].id = popular[i].moduleId
            /\ popular[i].enrollments = EnrolledCount(popular[i].moduleId)
       /\ \A i, j \in 1..Len(popular) :
            i < j => popular[i].enrollments >= popular[j].enrollments
\* six modules, three enrollments of which two are completed with scores 75
\* and 100: the mean 87.5 is rounded to 88, the rate 66.7 to 67, and the
\* sixth module, with two enrollments, leads the five that are returned
C24_SixModulesTieRounded ==
  /\ analytics.set
  /\ Len(modules) = 6 /\ Len(enrollments) = 3
  /\ analytics.completionRate = 67
  /\ analytics.averageScore = 88
  /\ Len(analytics.popularModules) = 5
  /\ analytics.popularModules[1] = [moduleId |-> 6, enrollments |-> 2]
  /\ analytics.popularModules[2] = [moduleId |-> 1, enrollments |-> 1]

====
